---- MODULE Spec2Model ----
(***************************************************************************)
(* PyCoin ledger: transactions, blocks and the Blockchain state machine    *)
(* (src/core/transaction.py, src/core/block.py, src/core/blockchain.py).   *)
(*                                                                         *)
(* Digests.  double_sha256 is modelled as a collision-free function: the   *)
(* digest of x is the one-element tuple <<x>>, and the all-zero digest     *)
(* "0" * 64 is the empty tuple, which is the digest of nothing.  The number*)
(* of leading '0' characters of a block hash is a deterministic function   *)
(* of the hashed header (LeadingZeros).  Keys are named by their owner and *)
(* an address is the wrapped public key (hash160 is collision-free too).   *)
(* A signature is the pair of its signer and the digest signed.  draft is  *)
(* the transaction or the block a caller holds apart from the ledger.      *)
(***************************************************************************)
EXTENDS Integers, Sequences, FiniteSets, TLC

VARIABLES chain, pending_transactions, utxo, spent_outputs,
          difficulty, block_reward, clock, lastOp, lastResult, lastFacts,
          draft

vars == <<chain, pending_transactions, utxo, spent_outputs,
          difficulty, block_reward, clock, lastOp, lastResult, lastFacts,
          draft>>

ledger == <<chain, pending_transactions, utxo, spent_outputs>>

-----------------------------------------------------------------------------
(* Bounds of the model *)

\* no block is built once the chain holds this many
MaxBlocks == 3
\* no transaction is submitted once the chain and the pending pool together
\* hold this many submitted transactions
MaxTransactions == 2
\* a block hash has between 0 and MaxZeros leading zeros
MaxZeros == 2
\* the ledger's difficulty and block reward, set at construction
InitDifficulty == 1
InitReward == 2
\* the end-to-end run starts with a block reward of InitReward up to
\* InitReward + RewardSpread
RewardSpread == 4
\* a transaction built for signing has up to MaxInputs inputs
MaxInputs == 2
\* a block built apart from the ledger holds up to MaxListed transactions
MaxListed == 3
\* the nonce search of mine is followed up to this nonce
MaxNonce == 8

(* Program constants *)

\* TransactionInput.sequence default, and the coinbase output index: 0xffffffff,
\* written as the largest integer TLC holds (no arithmetic is done on it)
SEQUENCE_MAX == 2147483647
\* Transaction.version default
TX_VERSION == 1
\* Transaction.lock_time default
LOCK_TIME == 0

\* the owners of addresses; the submitting wallet holds the key of the first
Alice == "alice"
Bob == "bob"
Owners == {Alice, Bob}

-----------------------------------------------------------------------------
(* crypto.py, keys.py *)

double_sha256(data) == <<data>>

NULL_HASH == <<>>

\* PrivateKey.public_key
PublicKeyOf(private_key) == private_key

\* PublicKey.to_address: base58check of hash160 of the key bytes
ToAddress(public_key) == <<public_key>>

Addresses == {ToAddress(PublicKeyOf(k)) : k \in Owners}

\* PrivateKey.sign: a signature remembers who signed what
Sign(private_key, message_hash) ==
    [signer |-> PublicKeyOf(private_key), digest |-> message_hash]

\* PublicKey.verify
VerifySignature(public_key, message_hash, signature) ==
    /\ signature.signer = public_key
    /\ signature.digest = message_hash

-----------------------------------------------------------------------------
(* transaction.py *)

\* signature scripts: "" (empty), "coinbase_block_<height>", "<sig>:<pubkey>"
EmptyScript ==
    [kind |-> "empty", height |-> 0, pubkey |-> "",
     signature |-> [signer |-> "", digest |-> NULL_HASH]]

CoinbaseScript(block_height) ==
    [kind |-> "coinbase", height |-> block_height, pubkey |-> "",
     signature |-> [signer |-> "", digest |-> NULL_HASH]]

SigScript(sig, pubkey_hex) ==
    [kind |-> "sig", height |-> 0, pubkey |-> pubkey_hex, signature |-> sig]

TransactionInput(prev_tx_id, prev_output_index, signature_script) ==
    [prev_tx_id |-> prev_tx_id, prev_output_index |-> prev_output_index,
     signature_script |-> signature_script, sequence |-> SEQUENCE_MAX]

TransactionOutput(amount, recipient_address) ==
    [amount |-> amount, recipient_address |-> recipient_address,
     pubkey_script |-> ""]

\* an empty cache (_tx_id = None, _hash = None)
None == <<[none |-> TRUE]>>

\* Transaction.__init__.  The cached id is kept only while it can differ from
\* the recomputed one: a cache filled from the current contents reads as the
\* recomputed id and is written None.
Transaction(inputs, outputs) ==
    [version |-> TX_VERSION, inputs |-> inputs, outputs |-> outputs,
     lock_time |-> LOCK_TIME, cached_tx_id |-> None]

\* serialize_for_signing that writes the signature scripts too
serialize_with_signature_scripts(tx) ==
    [version |-> tx.version,
     inputs |-> tx.inputs,
     outputs |-> tx.outputs,
     lock_time |-> tx.lock_time]

\* Transaction.serialize_for_signing: the signature scripts are left out
serialize_for_signing(tx) ==
    [version |-> tx.version,
     inputs |-> [i \in DOMAIN tx.inputs |->
                   [prev_tx_id |-> tx.inputs[i].prev_tx_id,
                    prev_output_index |-> tx.inputs[i].prev_output_index,
                    sequence |-> tx.inputs[i].sequence]],
     outputs |-> tx.outputs,
     lock_time |-> tx.lock_time]

\* Transaction.calculate_hash
calculate_tx_hash(tx) == double_sha256(serialize_for_signing(tx))

\* the tx_id property: the cached id, computed when there is none
tx_id(tx) ==
    IF tx.cached_tx_id = None THEN calculate_tx_hash(tx) ELSE tx.cached_tx_id

\* the "tx_id:index" key of the UTXO map and of the spent set
OutpointKey(prev_tx_id, prev_output_index) ==
    [tx_id |-> prev_tx_id, index |-> prev_output_index]

InputKey(inp) == OutpointKey(inp.prev_tx_id, inp.prev_output_index)

\* sign_input signing the serialization that holds the signature scripts
sign_input_over_scripts(tx, input_index, private_key) ==
    LET message_hash == double_sha256(serialize_with_signature_scripts(tx))
        script == SigScript(Sign(private_key, message_hash),
                            PublicKeyOf(private_key))
    IN [tx EXCEPT !.inputs[input_index].signature_script = script,
                  !.cached_tx_id = None]

\* Transaction.sign_input, from the message to the end; input_index is the
\* place in the list, counted from 1, that self.inputs[input_index] names
sign_input(tx, input_index, private_key) ==
    LET message_hash == double_sha256(serialize_for_signing(tx))
        script == SigScript(Sign(private_key, message_hash),
                            PublicKeyOf(private_key))
    IN [tx EXCEPT !.inputs[input_index].signature_script = script,
                  !.cached_tx_id = None]

\* verify_input that stops after the comparison of the addresses
verify_input_without_signature_check(tx, input_index, prev_output) ==
    IF input_index > Len(tx.inputs) THEN FALSE
    ELSE LET inp == tx.inputs[input_index]
             script == inp.signature_script
         IN IF script.kind # "sig" THEN FALSE
            ELSE prev_output.recipient_address = ToAddress(script.pubkey)

\* Transaction.verify_input
verify_input(tx, input_index, prev_output) ==
    IF input_index > Len(tx.inputs) THEN FALSE
    ELSE LET inp == tx.inputs[input_index]
             script == inp.signature_script
         IN IF script.kind # "sig" THEN FALSE
            ELSE IF prev_output.recipient_address # ToAddress(script.pubkey)
                 THEN FALSE
                 ELSE VerifySignature(script.pubkey,
                                      double_sha256(serialize_for_signing(tx)),
                                      script.signature)

\* verify that passes over an input whose outpoint is not in prev_outputs
verify_skipping_missing_outputs(tx, prev_outputs) ==
    \A i \in DOMAIN tx.inputs :
        InputKey(tx.inputs[i]) \in DOMAIN prev_outputs
        => verify_input(tx, i, prev_outputs[InputKey(tx.inputs[i])])

\* Transaction.verify
verify(tx, prev_outputs) ==
    \A i \in DOMAIN tx.inputs :
        /\ InputKey(tx.inputs[i]) \in DOMAIN prev_outputs
        /\ verify_input(tx, i, prev_outputs[InputKey(tx.inputs[i])])

RECURSIVE SumInputs(_, _, _)
SumInputs(inputs, prev_outputs, i) ==
    IF i > Len(inputs) THEN 0
    ELSE (IF InputKey(inputs[i]) \in DOMAIN prev_outputs
          THEN prev_outputs[InputKey(inputs[i])].amount ELSE 0)
         + SumInputs(inputs, prev_outputs, i + 1)

\* Transaction.get_input_value
get_input_value(tx, prev_outputs) == SumInputs(tx.inputs, prev_outputs, 1)

RECURSIVE SumOutputs(_, _)
SumOutputs(outputs, i) ==
    IF i > Len(outputs) THEN 0
    ELSE outputs[i].amount + SumOutputs(outputs, i + 1)

\* Transaction.get_output_value
get_output_value(tx) == SumOutputs(tx.outputs, 1)

\* create_coinbase_transaction
create_coinbase_transaction(recipient_address, amount, block_height) ==
    Transaction(
        <<TransactionInput(NULL_HASH, SEQUENCE_MAX, CoinbaseScript(block_height))>>,
        <<TransactionOutput(amount, recipient_address)>>)

\* the coinbase test of add_transaction, _add_block and validate_transactions
FirstInputIsNull(tx) == tx.inputs[1].prev_tx_id = NULL_HASH

-----------------------------------------------------------------------------
(* block.py *)

\* one level of the merkle tree: adjacent pairs, the last one paired with
\* itself when the level is odd
\* the pairing of one level that hands an unpaired last node up as it is
RECURSIVE MerkleLevel_promoting_last(_, _)
MerkleLevel_promoting_last(current_level, i) ==
    IF i > Len(current_level) THEN <<>>
    ELSE IF i + 1 > Len(current_level) THEN <<current_level[i]>>
    ELSE <<double_sha256([left |-> current_level[i],
                          right |-> current_level[i + 1]])>>
         \o MerkleLevel_promoting_last(current_level, i + 2)

RECURSIVE MerkleLevel(_, _)
MerkleLevel(current_level, i) ==
    IF i > Len(current_level) THEN <<>>
    ELSE LET left == current_level[i]
             right == IF i + 1 <= Len(current_level)
                      THEN current_level[i + 1] ELSE left
         IN <<double_sha256([left |-> left, right |-> right])>>
            \o MerkleLevel(current_level, i + 2)

RECURSIVE MerkleReduce(_)
MerkleReduce(current_level) ==
    IF Len(current_level) > 1
    THEN MerkleReduce(MerkleLevel(current_level, 1))
    ELSE current_level[1]

\* calculate_merkle_root that pairs a single transaction id with itself
calculate_merkle_root_pairing_single(transactions) ==
    IF transactions = <<>> THEN NULL_HASH
    ELSE MerkleReduce(MerkleLevel(
             [i \in DOMAIN transactions |-> tx_id(transactions[i])], 1))

\* calculate_merkle_root
calculate_merkle_root(transactions) ==
    IF transactions = <<>> THEN NULL_HASH
    ELSE MerkleReduce([i \in DOMAIN transactions |-> tx_id(transactions[i])])

\* Block.__init__: the merkle root is computed from the transactions
Block(index, transactions, previous_hash, timestamp, nonce, block_difficulty) ==
    [index |-> index, transactions |-> transactions,
     previous_hash |-> previous_hash, timestamp |-> timestamp,
     nonce |-> nonce, difficulty |-> block_difficulty,
     merkle_root |-> calculate_merkle_root(transactions),
     hash |-> None]

\* Block.calculate_hash
calculate_hash(block) ==
    double_sha256([index |-> block.index,
                   previous_hash |-> block.previous_hash,
                   merkle_root |-> block.merkle_root,
                   timestamp |-> block.timestamp,
                   difficulty |-> block.difficulty,
                   nonce |-> block.nonce])

\* Block.hash: the cached hash, computed on first use
block_hash(block) ==
    IF block.hash = None THEN calculate_hash(block) ELSE block.hash

\* the block once its hash property has been read
HashRead(block) == [block EXCEPT !.hash = block_hash(block)]

\* number of leading '0' characters of a block hash
LeadingZeros(hash) ==
    LET header == hash[1]
    IN (header.nonce + header.index + header.timestamp) % (MaxZeros + 1)

\* block_hash.startswith("0" * target_difficulty)
StartsWithZeros(hash, target_difficulty) ==
    LeadingZeros(hash) >= target_difficulty

\* mine that leaves the cached hash in place
RECURSIVE mine_keeping_cached_hash(_, _)
mine_keeping_cached_hash(block, target_difficulty) ==
    IF StartsWithZeros(calculate_hash(block), target_difficulty)
    THEN block
    ELSE mine_keeping_cached_hash([block EXCEPT !.nonce = block.nonce + 1],
                                  target_difficulty)

\* Block.mine: the nonce goes up from its current value until the hash
\* starts with the target
RECURSIVE mine(_, _)
mine(block, target_difficulty) ==
    LET attempt == [block EXCEPT !.hash = None]
    IN IF StartsWithZeros(calculate_hash(attempt), target_difficulty)
       THEN attempt
       ELSE mine([attempt EXCEPT !.nonce = attempt.nonce + 1],
                 target_difficulty)

\* Block.is_valid_proof
is_valid_proof(block, target_difficulty) ==
    StartsWithZeros(block_hash(block), target_difficulty)

\* Block.validate_transactions
validate_transactions(block, prev_outputs) ==
    IF block.transactions = <<>> THEN FALSE
    ELSE IF ~FirstInputIsNull(block.transactions[1]) THEN FALSE
    ELSE IF \E i \in 2..Len(block.transactions) :
                ~verify(block.transactions[i], prev_outputs) THEN FALSE
    ELSE IF block.merkle_root # calculate_merkle_root(block.transactions)
         THEN FALSE
    ELSE TRUE

\* what a call of validate_transactions gives: transactions[0].inputs[0] of
\* line 199 raises IndexError when the first transaction has no inputs
ValidateTransactionsOutcome(block, prev_outputs) ==
    IF block.transactions # <<>> /\ block.transactions[1].inputs = <<>>
    THEN "IndexError"
    ELSE IF validate_transactions(block, prev_outputs) THEN "True"
    ELSE "False"

\* create_genesis_block
create_genesis_block(miner_address, reward, block_difficulty, timestamp) ==
    Block(0, <<create_coinbase_transaction(miner_address, reward, 0)>>,
          NULL_HASH, timestamp, 0, block_difficulty)

-----------------------------------------------------------------------------
(* blockchain.py *)

\* self.utxo[key] = output
Put(map, key, value) ==
    [k \in DOMAIN map \cup {key} |-> IF k = key THEN value ELSE map[k]]

\* if key in self.utxo: del self.utxo[key]
Del(map, key) == [k \in DOMAIN map \ {key} |-> map[k]]

\* Blockchain._add_utxos
RECURSIVE add_utxos(_, _, _)
add_utxos(map, transaction, i) ==
    IF i > Len(transaction.outputs) THEN map
    ELSE add_utxos(Put(map, OutpointKey(tx_id(transaction), i - 1),
                       transaction.outputs[i]),
                   transaction, i + 1)

\* Blockchain.get_latest_block (the chain is not empty)
get_latest_block(blocks) == blocks[Len(blocks)]

\* _validate_transaction without the spent_outputs test
validate_transaction_without_spent_check(transaction, utxos, spent) ==
    IF \E i \in DOMAIN transaction.inputs :
           InputKey(transaction.inputs[i]) \notin DOMAIN utxos
    THEN FALSE
    ELSE IF ~verify(transaction, utxos) THEN FALSE
    ELSE IF get_input_value(transaction, utxos) < get_output_value(transaction)
         THEN FALSE
    ELSE TRUE

\* _validate_transaction without the signature verification
validate_transaction_without_verify(transaction, utxos, spent) ==
    IF \E i \in DOMAIN transaction.inputs :
           \/ InputKey(transaction.inputs[i]) \in spent
           \/ InputKey(transaction.inputs[i]) \notin DOMAIN utxos
    THEN FALSE
    ELSE IF get_input_value(transaction, utxos) < get_output_value(transaction)
         THEN FALSE
    ELSE TRUE

\* _validate_transaction without the comparison of input and output value
validate_transaction_without_funds_check(transaction, utxos, spent) ==
    IF \E i \in DOMAIN transaction.inputs :
           \/ InputKey(transaction.inputs[i]) \in spent
           \/ InputKey(transaction.inputs[i]) \notin DOMAIN utxos
    THEN FALSE
    ELSE IF ~verify(transaction, utxos) THEN FALSE
    ELSE TRUE

\* Blockchain._validate_transaction
validate_transaction(transaction, utxos, spent) ==
    IF \E i \in DOMAIN transaction.inputs :
           \/ InputKey(transaction.inputs[i]) \in spent
           \/ InputKey(transaction.inputs[i]) \notin DOMAIN utxos
    THEN FALSE
    ELSE IF ~verify(transaction, utxos) THEN FALSE
    ELSE IF get_input_value(transaction, utxos) < get_output_value(transaction)
         THEN FALSE
    ELSE TRUE

\* Blockchain._validate_block (the chain is not empty)
validate_block(block, blocks, utxos, target_difficulty) ==
    IF block.index # Len(blocks) THEN FALSE
    ELSE IF block.previous_hash # block_hash(get_latest_block(blocks)) THEN FALSE
    ELSE IF ~is_valid_proof(block, target_difficulty) THEN FALSE
    ELSE IF ~validate_transactions(block, utxos) THEN FALSE
    ELSE TRUE

\* validate_chain without the comparison of previous_hash to the hash of the
\* block before
validate_chain_without_link_check(blocks, target_difficulty) ==
    IF blocks = <<>> THEN TRUE
    ELSE IF blocks[1].index # 0 \/ blocks[1].previous_hash # NULL_HASH
         THEN FALSE
    ELSE IF \E i \in 2..Len(blocks) :
                \/ blocks[i].index # i - 1
                \/ ~is_valid_proof(blocks[i], target_difficulty)
         THEN FALSE
    ELSE TRUE

\* Blockchain.validate_chain: the genesis shape, then index, link and proof
\* of every block after the first
validate_chain(blocks, target_difficulty) ==
    IF blocks = <<>> THEN TRUE
    ELSE IF blocks[1].index # 0 \/ blocks[1].previous_hash # NULL_HASH
         THEN FALSE
    ELSE IF \E i \in 2..Len(blocks) :
                \/ blocks[i].index # i - 1
                \/ blocks[i].previous_hash # block_hash(blocks[i - 1])
                \/ ~is_valid_proof(blocks[i], target_difficulty)
         THEN FALSE
    ELSE TRUE

\* the inner loop of _add_block: the inputs of one transaction leave the
\* UTXO map and enter the spent set
RECURSIVE SpendInputs(_, _, _)
SpendInputs(state, inputs, i) ==
    IF i > Len(inputs) THEN state
    ELSE SpendInputs([utxo |-> Del(state.utxo, InputKey(inputs[i])),
                      spent |-> state.spent \cup {InputKey(inputs[i])}],
                     inputs, i + 1)

\* the outer loop of _add_block, transaction by transaction in block order
RECURSIVE UpdateUtxoSet(_, _, _)
UpdateUtxoSet(state, transactions, i) ==
    IF i > Len(transactions) THEN state
    ELSE LET tx == transactions[i]
             afterSpend == IF ~FirstInputIsNull(tx)
                           THEN SpendInputs(state, tx.inputs, 1)
                           ELSE state
         IN UpdateUtxoSet([utxo |-> add_utxos(afterSpend.utxo, tx, 1),
                           spent |-> afterSpend.spent],
                          transactions, i + 1)

\* _add_block appending the block before it validates it
add_block_append_first(block, blocks, utxos, spent, target_difficulty) ==
    IF ~validate_block(block, blocks, utxos, target_difficulty)
    THEN [ok |-> FALSE, chain |-> Append(blocks, HashRead(block)),
          utxo |-> utxos, spent |-> spent]
    ELSE LET after == UpdateUtxoSet([utxo |-> utxos, spent |-> spent],
                                    block.transactions, 1)
         IN [ok |-> TRUE, chain |-> Append(blocks, HashRead(block)),
             utxo |-> after.utxo, spent |-> after.spent]

\* _add_block putting the block in the place of the latest one
add_block_replace_latest(block, blocks, utxos, spent, target_difficulty) ==
    IF ~validate_block(block, blocks, utxos, target_difficulty)
    THEN [ok |-> FALSE, chain |-> blocks, utxo |-> utxos, spent |-> spent]
    ELSE LET after == UpdateUtxoSet([utxo |-> utxos, spent |-> spent],
                                    block.transactions, 1)
         IN [ok |-> TRUE,
             chain |-> [blocks EXCEPT ![Len(blocks)] = HashRead(block)],
             utxo |-> after.utxo, spent |-> after.spent]

\* Blockchain._add_block: the ledger after the call, and what it returns
add_block(block, blocks, utxos, spent, target_difficulty) ==
    IF ~validate_block(block, blocks, utxos, target_difficulty)
    THEN [ok |-> FALSE, chain |-> blocks, utxo |-> utxos, spent |-> spent]
    ELSE LET after == UpdateUtxoSet([utxo |-> utxos, spent |-> spent],
                                    block.transactions, 1)
         IN [ok |-> TRUE, chain |-> Append(blocks, HashRead(block)),
             utxo |-> after.utxo, spent |-> after.spent]

\* add_transaction appending the transaction before it validates it
add_transaction_append_first(transaction, pending, utxos, spent) ==
    IF transaction.inputs = <<>>
    THEN [returns |-> "IndexError", pending |-> pending]
    ELSE IF FirstInputIsNull(transaction)
    THEN [returns |-> "True", pending |-> Append(pending, transaction)]
    ELSE IF ~validate_transaction(transaction, utxos, spent)
    THEN [returns |-> "False", pending |-> Append(pending, transaction)]
    ELSE [returns |-> "True", pending |-> Append(pending, transaction)]

\* Blockchain.add_transaction: what it returns and the pending pool after it
add_transaction(transaction, pending, utxos, spent) ==
    IF transaction.inputs = <<>>
    THEN [returns |-> "IndexError", pending |-> pending]
    ELSE IF FirstInputIsNull(transaction)
    THEN [returns |-> "True", pending |-> Append(pending, transaction)]
    ELSE IF ~validate_transaction(transaction, utxos, spent)
    THEN [returns |-> "False", pending |-> pending]
    ELSE [returns |-> "True", pending |-> Append(pending, transaction)]

\* BuildBlock that lists the pending transactions last first
BuildBlock_reversing_pending(miner_address, blocks, pending, reward, target_difficulty, timestamp) ==
    LET block_height == Len(blocks)
        coinbase == create_coinbase_transaction(miner_address, reward,
                                                block_height)
        reversed == [i \in 1..Len(pending) |-> pending[Len(pending) + 1 - i]]
        new_block == Block(block_height, <<coinbase>> \o reversed,
                           block_hash(get_latest_block(blocks)), timestamp, 0,
                           target_difficulty)
    IN mine(new_block, target_difficulty)

\* Blockchain.mine_pending_transactions, from the coinbase to the mined block
\* (the chain is not empty)
BuildBlock(miner_address, blocks, pending, reward, target_difficulty, timestamp) ==
    LET block_height == Len(blocks)
        coinbase == create_coinbase_transaction(miner_address, reward,
                                                block_height)
        new_block == Block(block_height, <<coinbase>> \o pending,
                           block_hash(get_latest_block(blocks)), timestamp, 0,
                           target_difficulty)
    IN mine(new_block, target_difficulty)

\* the sum of the amounts of the entries of a map under the given keys
RECURSIVE SumAmounts(_, _)
SumAmounts(map, keys) ==
    IF keys = {} THEN 0
    ELSE LET key == CHOOSE k \in keys : TRUE
         IN map[key].amount + SumAmounts(map, keys \ {key})

\* Blockchain.get_utxos_for_address: the keys of the outputs of an address
get_utxos_for_address(utxos, address) ==
    {k \in DOMAIN utxos : utxos[k].recipient_address = address}

\* Blockchain.get_balance
get_balance(utxos, address) ==
    SumAmounts(utxos, get_utxos_for_address(utxos, address))

-----------------------------------------------------------------------------
(* The transactions a caller submits *)

\* an outpoint no block ever created
UnknownOutpoint == OutpointKey(tx_id(Transaction(<<>>, <<>>)), 0)

Candidates == DOMAIN utxo \cup spent_outputs \cup {UnknownOutpoint}

Unsigned(keys, outputs) ==
    Transaction([i \in DOMAIN keys |->
                    TransactionInput(keys[i].tx_id, keys[i].index, EmptyScript)],
                outputs)

\* Wallet.create_transaction signs every input with the wallet's key
RECURSIVE SignAll(_, _, _)
SignAll(tx, private_key, i) ==
    IF i > Len(tx.inputs) THEN tx
    ELSE SignAll(sign_input(tx, i, private_key), private_key, i + 1)

Signed(keys, outputs) == SignAll(Unsigned(keys, outputs), Alice, 1)

\* create_transaction returning None
NoTransaction == [none |-> TRUE]

\* the order in which the map hands out the outputs of an address
KeyOrder(keys) ==
    CHOOSE order \in [1..Cardinality(keys) -> keys] :
        \A k \in keys : \E i \in DOMAIN order : order[i] = k

\* the selection loop of create_transaction: outputs are taken in order
\* until they cover the required amount
RECURSIVE SelectUtxos(_, _, _, _, _)
SelectUtxos(utxos, order, i, total_input, required_amount) ==
    IF i > Len(order) THEN <<>>
    ELSE IF total_input + utxos[order[i]].amount >= required_amount
         THEN <<order[i]>>
         ELSE <<order[i]>>
              \o SelectUtxos(utxos, order, i + 1,
                             total_input + utxos[order[i]].amount,
                             required_amount)

\* create_transaction that leaves out the change output
create_transaction_without_change(private_key, utxos, recipient_address, amount, fee) ==
    LET address == ToAddress(PublicKeyOf(private_key))
        owned == get_utxos_for_address(utxos, address)
        selected_utxos == SelectUtxos(utxos, KeyOrder(owned), 1, 0,
                                      amount + fee)
        total_input == SumAmounts(utxos, {selected_utxos[i] :
                                             i \in DOMAIN selected_utxos})
    IN IF owned = {} THEN NoTransaction
       ELSE IF total_input < amount + fee THEN NoTransaction
       ELSE SignAll(Unsigned(selected_utxos,
                             <<TransactionOutput(amount, recipient_address)>>),
                    private_key, 1)

\* Wallet.create_transaction
create_transaction(private_key, utxos, recipient_address, amount, fee) ==
    LET address == ToAddress(PublicKeyOf(private_key))
        owned == get_utxos_for_address(utxos, address)
        selected_utxos == SelectUtxos(utxos, KeyOrder(owned), 1, 0,
                                      amount + fee)
        total_input == SumAmounts(utxos, {selected_utxos[i] :
                                             i \in DOMAIN selected_utxos})
        change == total_input - amount - fee
        outputs == <<TransactionOutput(amount, recipient_address)>>
                   \o (IF change > 0
                       THEN <<TransactionOutput(change, address)>>
                       ELSE <<>>)
    IN IF owned = {} THEN NoTransaction
       ELSE IF total_input < amount + fee THEN NoTransaction
       ELSE SignAll(Unsigned(selected_utxos, outputs), private_key, 1)

ToBob(amount) == TransactionOutput(amount, ToAddress(PublicKeyOf(Bob)))
ToAlice(amount) == TransactionOutput(amount, ToAddress(PublicKeyOf(Alice)))

\* Alice pays Bob out of one outpoint: less than a block reward, a whole
\* block reward or more than one, or with change to herself
Payments ==
    {Signed(<<k>>, <<ToBob(a)>>) :
        k \in Candidates, a \in {1, block_reward, block_reward + 1}}
    \cup {Signed(<<k>>, <<ToBob(1), ToAlice(1)>>) : k \in Candidates}

\* a transaction that names the same outpoint in two inputs
DoubleReferences ==
    {Signed(<<k, k>>, <<ToBob(block_reward), ToAlice(1)>>) : k \in DOMAIN utxo}

\* never signed; signed before the outputs were set; without any input
Malformed ==
    {Unsigned(<<k>>, <<ToBob(1)>>) : k \in DOMAIN utxo}
    \cup {[Signed(<<k>>, <<>>) EXCEPT !.outputs = <<ToBob(1)>>] :
             k \in DOMAIN utxo}
    \cup {Unsigned(<<>>, <<ToBob(1)>>)}

\* a transaction shaped as a coinbase
CoinbaseShaped ==
    {create_coinbase_transaction(ToAddress(PublicKeyOf(Alice)), block_reward,
                                 Len(chain))}

Submissions == Payments \cup DoubleReferences \cup Malformed \cup CoinbaseShaped

\* a payment of more than the input holds, evened out by a negative change
NegativeOutputs ==
    {Signed(<<k>>, <<ToBob(utxo[k].amount + 1), ToAlice(-1)>>) :
        k \in DOMAIN utxo}

-----------------------------------------------------------------------------
(* What the ledger's rules say of a submitted transaction, in the state it *)
(* is submitted in                                                         *)

\* where the committed blocks spend: <<block, transaction, input>> of every
\* input of every transaction that is not a coinbase
SpendPositions ==
    UNION {UNION {{<<b, t, i>> : i \in DOMAIN chain[b].transactions[t].inputs} :
                    t \in {u \in DOMAIN chain[b].transactions :
                              ~FirstInputIsNull(chain[b].transactions[u])}} :
             b \in DOMAIN chain}

SpentKeyAt(p) == InputKey(chain[p[1]].transactions[p[2]].inputs[p[3]])

\* the outpoints consumed by the committed blocks
ChainConsumed == {SpentKeyAt(p) : p \in SpendPositions}

Facts(tx) ==
    [ordinary |-> tx.inputs # <<>> /\ tx.inputs[1].prev_tx_id # NULL_HASH,
     unspent |-> \A i \in DOMAIN tx.inputs :
                    /\ InputKey(tx.inputs[i]) \in DOMAIN utxo
                    /\ InputKey(tx.inputs[i]) \notin spent_outputs,
     verified |-> verify(tx, utxo),
     funded |-> get_input_value(tx, utxo) >= get_output_value(tx),
     replay |-> \E i \in DOMAIN tx.inputs :
                    InputKey(tx.inputs[i]) \in ChainConsumed]

NoFacts ==
    [ordinary |-> FALSE, unspent |-> FALSE, verified |-> FALSE,
     funded |-> FALSE, replay |-> FALSE]

-----------------------------------------------------------------------------
(* The ledger *)

\* Blockchain.__init__
Init ==
    /\ chain = <<>>
    /\ pending_transactions = <<>>
    /\ utxo = <<>>
    /\ spent_outputs = {}
    /\ difficulty = InitDifficulty
    /\ block_reward = InitReward
    /\ clock = 1
    /\ lastOp = "init"
    /\ lastResult = "None"
    /\ lastFacts = NoFacts
    /\ draft = NoTransaction

\* Blockchain.create_genesis_block
CreateGenesis(miner_address) ==
    /\ Len(chain) < MaxBlocks
    /\ LET genesis == mine(create_genesis_block(miner_address, block_reward,
                                                difficulty, clock),
                           difficulty)
       IN /\ chain' = Append(chain, HashRead(genesis))
          /\ utxo' = add_utxos(utxo, genesis.transactions[1], 1)
    /\ clock' = clock + 1
    /\ lastOp' = "create_genesis_block"
    /\ lastResult' = "block"
    /\ lastFacts' = NoFacts
    /\ UNCHANGED <<pending_transactions, spent_outputs, difficulty,
                   block_reward, draft>>

\* the number of submitted transactions the committed blocks hold
RECURSIVE Committed(_)
Committed(blocks) ==
    IF blocks = <<>> THEN 0
    ELSE Len(blocks[Len(blocks)].transactions) - 1
         + Committed(SubSeq(blocks, 1, Len(blocks) - 1))

\* Blockchain.add_transaction, on the ledger
Submit(transaction) ==
    /\ Committed(chain) + Len(pending_transactions) < MaxTransactions
    /\ LET r == add_transaction(transaction, pending_transactions, utxo,
                                spent_outputs)
       IN /\ pending_transactions' = r.pending
          /\ lastResult' = r.returns
    /\ lastOp' = "add_transaction"
    /\ UNCHANGED <<chain, utxo, spent_outputs, difficulty, block_reward, clock,
                   draft>>

\* Blockchain.add_transaction
AddTransaction(transaction) ==
    /\ Submit(transaction)
    /\ lastFacts' = Facts(transaction)

\* mine_pending_transactions that keeps the pending pool after a commit
Mine_keeping_pending(miner_address) ==
    /\ Len(chain) < MaxBlocks
    /\ IF chain = <<>>
       THEN /\ lastResult' = "None"
            /\ UNCHANGED <<chain, pending_transactions, utxo, spent_outputs,
                           clock>>
       ELSE LET new_block == BuildBlock(miner_address, chain,
                                        pending_transactions, block_reward,
                                        difficulty, clock)
                r == add_block(new_block, chain, utxo, spent_outputs,
                               difficulty)
            IN /\ chain' = r.chain
               /\ utxo' = r.utxo
               /\ spent_outputs' = r.spent
               /\ pending_transactions' = pending_transactions
               /\ lastResult' = IF r.ok THEN "block" ELSE "None"
               /\ clock' = IF r.ok THEN clock + 1 ELSE clock
    /\ lastOp' = "mine_pending_transactions"
    /\ UNCHANGED <<difficulty, block_reward, draft>>

\* mine_pending_transactions emptying the pending pool before it looks for
\* the latest block
Mine_clearing_pending_first(miner_address) ==
    /\ Len(chain) < MaxBlocks
    /\ IF chain = <<>>
       THEN /\ lastResult' = "None"
            /\ pending_transactions' = <<>>
            /\ UNCHANGED <<chain, utxo, spent_outputs, clock>>
       ELSE LET new_block == BuildBlock(miner_address, chain,
                                        pending_transactions, block_reward,
                                        difficulty, clock)
                r == add_block(new_block, chain, utxo, spent_outputs,
                               difficulty)
            IN /\ chain' = r.chain
               /\ utxo' = r.utxo
               /\ spent_outputs' = r.spent
               /\ pending_transactions' = <<>>
               /\ lastResult' = IF r.ok THEN "block" ELSE "None"
               /\ clock' = IF r.ok THEN clock + 1 ELSE clock
    /\ lastOp' = "mine_pending_transactions"
    /\ UNCHANGED <<difficulty, block_reward, draft>>

\* Blockchain.mine_pending_transactions, on the ledger
Mine(miner_address) ==
    /\ Len(chain) < MaxBlocks
    /\ IF chain = <<>>
       THEN /\ lastResult' = "None"
            /\ UNCHANGED <<chain, pending_transactions, utxo, spent_outputs,
                           clock>>
       ELSE LET new_block == BuildBlock(miner_address, chain,
                                        pending_transactions, block_reward,
                                        difficulty, clock)
                r == add_block(new_block, chain, utxo, spent_outputs,
                               difficulty)
            IN /\ chain' = r.chain
               /\ utxo' = r.utxo
               /\ spent_outputs' = r.spent
               /\ pending_transactions' =
                      IF r.ok THEN <<>> ELSE pending_transactions
               /\ lastResult' = IF r.ok THEN "block" ELSE "None"
               /\ clock' = IF r.ok THEN clock + 1 ELSE clock
    /\ lastOp' = "mine_pending_transactions"
    /\ UNCHANGED <<difficulty, block_reward, draft>>

\* Blockchain.mine_pending_transactions
MinePending(miner_address) ==
    /\ Mine(miner_address)
    /\ lastFacts' = NoFacts

Next ==
    \/ CreateGenesis(ToAddress(PublicKeyOf(Alice)))
    \/ \E tx \in Submissions : AddTransaction(tx)
    \/ \E a \in Addresses : MinePending(a)

Spec == Init /\ [][Next]_vars

\* the ledger with callers that also submit outputs of negative amount
NegativeOutputNext ==
    \/ CreateGenesis(ToAddress(PublicKeyOf(Alice)))
    \/ \E tx \in Submissions \cup NegativeOutputs : AddTransaction(tx)
    \/ \E a \in Addresses : MinePending(a)

NegativeOutputSpec == Init /\ [][NegativeOutputNext]_vars

\* a transaction whose first input is the coinbase's and whose second names
\* an output of the ledger, signed with the wallet's key
NullFirstInputs ==
    {Signed(<<OutpointKey(NULL_HASH, SEQUENCE_MAX), k>>, <<ToAlice(1)>>) :
        k \in DOMAIN utxo}

\* the ledger with callers that also submit such transactions
NullFirstNext ==
    \/ CreateGenesis(ToAddress(PublicKeyOf(Alice)))
    \/ \E tx \in Submissions \cup NullFirstInputs : AddTransaction(tx)
    \/ \E a \in Addresses : MinePending(a)

NullFirstSpec == Init /\ [][NullFirstNext]_vars

-----------------------------------------------------------------------------
(* A committed block is changed behind the ledger's back, and the chain is  *)
(* validated.  The change comes right after a block is appended (every      *)
(* chain the ledger builds passes through such a state) and ends the run.   *)

Untampered ==
    lastOp \in {"init", "create_genesis_block", "add_transaction",
                "mine_pending_transactions"}

JustAppended == Untampered /\ lastResult = "block" /\ chain # <<>>

\* what is recorded of a tampering: the position of the block, and what the
\* validation returned before the change
TamperFacts(position, valid_before) ==
    [position |-> position, valid_before |-> valid_before]

\* the values written over a previous_hash: the null hash, the block's own
\* hash, the hash of the latest block
OtherHashes(position) ==
    {NULL_HASH, block_hash(chain[position]),
     block_hash(get_latest_block(chain))} \ {chain[position].previous_hash}

\* chain[position].previous_hash = other_hash; validate_chain()
TamperPreviousHash(position, other_hash) ==
    /\ JustAppended
    /\ position \in DOMAIN chain
    /\ other_hash # chain[position].previous_hash
    /\ chain' = [chain EXCEPT ![position].previous_hash = other_hash]
    /\ lastOp' = "tamper_previous_hash"
    /\ lastResult' = IF validate_chain(chain', difficulty)
                     THEN "True" ELSE "False"
    /\ lastFacts' = TamperFacts(position, validate_chain(chain, difficulty))
    /\ UNCHANGED <<pending_transactions, utxo, spent_outputs, difficulty,
                   block_reward, clock, draft>>

TamperPreviousHashNext ==
    \/ Untampered /\ CreateGenesis(ToAddress(PublicKeyOf(Alice)))
    \/ Untampered /\ \E tx \in Submissions : AddTransaction(tx)
    \/ Untampered /\ \E a \in Addresses : MinePending(a)
    \/ JustAppended /\ \E position \in DOMAIN chain :
          \E other_hash \in OtherHashes(position) :
             TamperPreviousHash(position, other_hash)

TamperPreviousHashSpec == Init /\ [][TamperPreviousHashNext]_vars

\* Block.from_dict of the block's dictionary with another nonce: a new
\* Block, with its merkle root recomputed and no cached hash
from_dict_with_nonce(block, nonce) ==
    Block(block.index, block.transactions, block.previous_hash,
          block.timestamp, nonce, block.difficulty)

\* chain[position] = the block rebuilt with another nonce; validate_chain()
TamperNonce(position, nonce) ==
    /\ JustAppended
    /\ position \in DOMAIN chain
    /\ nonce # chain[position].nonce
    /\ chain' = [chain EXCEPT
                   ![position] = from_dict_with_nonce(chain[position], nonce)]
    /\ lastOp' = "tamper_nonce"
    /\ lastResult' = IF validate_chain(chain', difficulty)
                     THEN "True" ELSE "False"
    /\ lastFacts' = TamperFacts(position, validate_chain(chain, difficulty))
    /\ UNCHANGED <<pending_transactions, utxo, spent_outputs, difficulty,
                   block_reward, clock, draft>>

\* the transactions of all the blocks, in chain order
RECURSIVE AllTransactions(_)
AllTransactions(blocks) ==
    IF blocks = <<>> THEN <<>>
    ELSE AllTransactions(SubSeq(blocks, 1, Len(blocks) - 1))
         \o blocks[Len(blocks)].transactions

\* every output of every transaction under its outpoint key, none removed:
\* the map load_from_file rebuilds, in which every committed input is found
RECURSIVE rebuild_utxo(_, _, _)
rebuild_utxo(map, transactions, i) ==
    IF i > Len(transactions) THEN map
    ELSE rebuild_utxo(add_utxos(map, transactions[i], 1), transactions, i + 1)

\* tx.outputs[0].amount += 1 on a transaction of a block: its id was read
\* when the block was built and stays cached
EditOutputInPlace(tx) ==
    [tx EXCEPT !.outputs[1].amount = @ + 1, !.cached_tx_id = tx_id(tx)]

\* tx.inputs[0].signature_script = "" or another coinbase text, likewise
EditInputInPlace(tx) ==
    [tx EXCEPT !.inputs[1].signature_script =
                   IF @.kind = "coinbase" THEN CoinbaseScript(@.height + 1)
                   ELSE EmptyScript,
               !.cached_tx_id = tx_id(tx)]

OtherAddress(address) == CHOOSE a \in Addresses : a # address

\* the lists written over block.transactions: a transaction removed, added,
\* replaced, moved, or edited in place
TamperedLists(block) ==
    LET txs == block.transactions
        n == Len(txs)
        miner == txs[1].outputs[1].recipient_address
        reward == txs[1].outputs[1].amount
    IN ({SubSeq(txs, 1, n - 1), Tail(txs), Append(txs, txs[n]),
         Append(txs, create_coinbase_transaction(OtherAddress(miner), reward,
                                                 block.index)),
         [txs EXCEPT ![1] = create_coinbase_transaction(OtherAddress(miner),
                                                        reward, block.index)],
         [txs EXCEPT ![1] = create_coinbase_transaction(miner, reward,
                                                        block.index + 1)]}
        \cup {<<txs[2], txs[1]>> \o SubSeq(txs, 3, n) : i \in 2..n}
        \cup {[txs EXCEPT ![t] = EditOutputInPlace(txs[t])] : t \in 1..n}
        \cup {[txs EXCEPT ![t] = EditInputInPlace(txs[t])] : t \in 1..n})
       \ {txs}

\* chain[position].transactions = transactions, the merkle_root attribute
\* left as it is; chain[position].validate_transactions(prev_outputs)
TamperTransactions(position, transactions) ==
    /\ JustAppended
    /\ position \in DOMAIN chain
    /\ transactions # chain[position].transactions
    /\ chain' = [chain EXCEPT ![position].transactions = transactions]
    /\ lastOp' = "tamper_transactions"
    /\ LET prev_outputs == rebuild_utxo(<<>>, AllTransactions(chain), 1)
       IN /\ lastResult' =
                 IF validate_transactions(chain'[position], prev_outputs)
                 THEN "True" ELSE "False"
          /\ lastFacts' =
                 TamperFacts(position,
                             validate_transactions(chain[position],
                                                   prev_outputs))
    /\ UNCHANGED <<pending_transactions, utxo, spent_outputs, difficulty,
                   block_reward, clock, draft>>

TamperBlockNext ==
    \/ Untampered /\ CreateGenesis(ToAddress(PublicKeyOf(Alice)))
    \/ Untampered /\ \E tx \in Submissions : AddTransaction(tx)
    \/ Untampered /\ \E a \in Addresses : MinePending(a)
    \/ JustAppended /\ \E position \in DOMAIN chain :
          \E nonce \in 0..MaxZeros : TamperNonce(position, nonce)
    \/ JustAppended /\ \E position \in DOMAIN chain :
          \E transactions \in TamperedLists(chain[position]) :
             TamperTransactions(position, transactions)

TamperBlockSpec == Init /\ [][TamperBlockNext]_vars

-----------------------------------------------------------------------------
(* The ledger is saved to a file and loaded from it                         *)

\* Transaction.from_dict(tx.to_dict()): the stored id becomes the cached id
\* (a cache that agrees with the contents is written None)
transaction_from_dict(tx) ==
    [tx EXCEPT !.cached_tx_id =
                   IF tx_id(tx) = calculate_tx_hash(tx) THEN None
                   ELSE tx_id(tx)]

\* Block.from_dict(block.to_dict()): a new Block, its merkle root recomputed,
\* the stored hash and merkle root not read
block_from_dict(block) ==
    Block(block.index,
          [i \in DOMAIN block.transactions |->
              transaction_from_dict(block.transactions[i])],
          block.previous_hash, block.timestamp, block.nonce, block.difficulty)

\* a load that leaves utxo and spent_outputs as they were when saved
LoadFromFile_restoring_spent ==
    /\ chain' = [i \in DOMAIN chain |-> block_from_dict(chain[i])]
    /\ pending_transactions' =
          [i \in DOMAIN pending_transactions |->
              transaction_from_dict(pending_transactions[i])]
    /\ lastOp' = "load_from_file"
    /\ lastResult' = "blockchain"
    /\ lastFacts' = NoFacts
    /\ UNCHANGED <<utxo, spent_outputs, difficulty, block_reward, clock,
                   draft>>

\* save_to_file(f); Blockchain.load_from_file(f), the loaded ledger taking
\* the place of the saved one
LoadFromFile ==
    /\ chain' = [i \in DOMAIN chain |-> block_from_dict(chain[i])]
    /\ utxo' = rebuild_utxo(<<>>, AllTransactions(chain'), 1)
    /\ spent_outputs' = {}
    /\ pending_transactions' =
          [i \in DOMAIN pending_transactions |->
              transaction_from_dict(pending_transactions[i])]
    /\ lastOp' = "load_from_file"
    /\ lastResult' = "blockchain"
    /\ lastFacts' = NoFacts
    /\ UNCHANGED <<difficulty, block_reward, clock, draft>>

\* the ledger of a caller who creates the genesis block once, submits
\* payments, mines, and saves and loads
LoadNext ==
    \/ chain = <<>> /\ CreateGenesis(ToAddress(PublicKeyOf(Alice)))
    \/ \E tx \in Payments : AddTransaction(tx)
    \/ \E a \in Addresses : MinePending(a)
    \/ LoadFromFile

LoadSpec == Init /\ [][LoadNext]_vars

-----------------------------------------------------------------------------
(* End to end: a ledger with some block reward, a genesis block to Alice,   *)
(* a payment of her wallet to Bob with a fee, and a second block            *)

\* a miner who is neither the payer nor the payee
Carol == "carol"

Miners == Addresses \cup {ToAddress(PublicKeyOf(Carol))}

\* Blockchain.__init__ with a block reward of the caller's choice
EndToEndInit ==
    /\ chain = <<>>
    /\ pending_transactions = <<>>
    /\ utxo = <<>>
    /\ spent_outputs = {}
    /\ difficulty = InitDifficulty
    /\ block_reward \in InitReward..(InitReward + RewardSpread)
    /\ clock = 1
    /\ lastOp = "init"
    /\ lastResult = "None"
    /\ lastFacts = NoFacts
    /\ draft = NoTransaction

\* what is recorded of the payment: its amount, its fee, and who mined it
PaymentFacts(amount, fee, miner_address) ==
    [amount |-> amount, fee |-> fee, miner |-> miner_address]

\* Wallet.create_transaction of Alice's wallet, then add_transaction
WalletSend(amount, fee) ==
    /\ lastOp = "create_genesis_block"
    /\ LET transaction == create_transaction(Alice, utxo,
                                             ToAddress(PublicKeyOf(Bob)),
                                             amount, fee)
       IN /\ transaction # NoTransaction
          /\ Submit(transaction)
    /\ lastFacts' = PaymentFacts(amount, fee, NULL_HASH)

\* mine_pending_transactions on the ledger that holds the payment
MinePayment(miner_address) ==
    /\ lastOp = "add_transaction" /\ lastResult = "True"
    /\ Mine(miner_address)
    /\ lastFacts' = [lastFacts EXCEPT !.miner = miner_address]

EndToEndNext ==
    \/ chain = <<>> /\ CreateGenesis(ToAddress(PublicKeyOf(Alice)))
    \/ \E amount \in 1..(block_reward - 1) : \E fee \in 0..block_reward :
          WalletSend(amount, fee)
    \/ \E miner_address \in Miners : MinePayment(miner_address)

EndToEndSpec == EndToEndInit /\ [][EndToEndNext]_vars

-----------------------------------------------------------------------------
(* A caller builds a transaction, reads its id and signs its inputs *)

\* the outpoints a draft names, and its outputs
DraftOutpoints ==
    {UnknownOutpoint} \cup
    {OutpointKey(tx_id(create_coinbase_transaction(a, InitReward, 0)), 0) :
        a \in Addresses}

DraftInputs ==
    UNION {[1..n -> DraftOutpoints] : n \in 1..MaxInputs}

DraftOutputs ==
    {<<ToBob(1)>>, <<ToBob(1), ToAlice(1)>>, <<ToBob(InitReward + 1)>>}

\* Transaction(inputs, outputs), nothing signed and no id computed
SigningInit ==
    /\ chain = <<>>
    /\ pending_transactions = <<>>
    /\ utxo = <<>>
    /\ spent_outputs = {}
    /\ difficulty = InitDifficulty
    /\ block_reward = InitReward
    /\ clock = 1
    /\ lastOp = "init"
    /\ lastResult = "None"
    /\ lastFacts = NoFacts
    /\ draft \in {Unsigned(keys, outputs) :
                     keys \in DraftInputs, outputs \in DraftOutputs}

\* a read of draft.tx_id: the id is computed if none is cached, and cached
ReadTxId ==
    /\ draft' = [draft EXCEPT !.cached_tx_id = tx_id(draft)]
    /\ lastOp' = "tx_id"
    /\ UNCHANGED <<ledger, difficulty, block_reward, clock, lastResult,
                   lastFacts>>

\* draft.sign_input(input_index, private_key), the index in range
SignInput(input_index, private_key) ==
    /\ input_index \in DOMAIN draft.inputs
    /\ draft' = sign_input(draft, input_index, private_key)
    /\ lastOp' = "sign_input"
    /\ UNCHANGED <<ledger, difficulty, block_reward, clock, lastResult,
                   lastFacts>>

SigningNext ==
    \/ ReadTxId
    \/ \E input_index \in 1..MaxInputs : \E private_key \in Owners :
          SignInput(input_index, private_key)

SigningSpec == SigningInit /\ [][SigningNext]_vars

-----------------------------------------------------------------------------
(* A caller signs the inputs of a transaction, in any order and with any   *)
(* index, damages signature scripts, and verifies against the outputs the  *)
(* inputs name                                                              *)

\* the outputs the draft's outpoints name: one coinbase output per address
DraftPrevOutputs ==
    add_utxos(add_utxos(<<>>,
                        create_coinbase_transaction(
                            ToAddress(PublicKeyOf(Alice)), InitReward, 0), 1),
              create_coinbase_transaction(
                  ToAddress(PublicKeyOf(Bob)), InitReward, 0), 1)

\* the key whose address an output pays to
OwnerOf(output) ==
    CHOOSE k \in Owners : ToAddress(PublicKeyOf(k)) = output.recipient_address

\* the indices a caller passes to sign_input, as Python counts them: from 0,
\* a negative one from the end of the list
InputIndices == (0 - MaxInputs - 1)..MaxInputs

\* what sign_input does with input_index: line 154 raises ValueError for one
\* at or above len(self.inputs); self.inputs[input_index] at line 173 raises
\* IndexError for one below -len(self.inputs), before anything is assigned
SignInputOutcome(tx, input_index) ==
    IF input_index >= Len(tx.inputs) THEN "ValueError"
    ELSE IF input_index < 0 - Len(tx.inputs) THEN "IndexError"
    ELSE "None"

\* the place in the list, counted from 1, that self.inputs[input_index] names
InputPosition(tx, input_index) ==
    IF input_index >= 0 THEN input_index + 1
    ELSE Len(tx.inputs) + input_index + 1

\* a script that has a ':' and does not decode (hex_to_bytes or
\* PublicKey.from_hex raises inside the try of verify_input)
GarbledScript ==
    [kind |-> "garbled", height |-> 0, pubkey |-> "",
     signature |-> [signer |-> "", digest |-> NULL_HASH]]

\* the scripts a damaged "<sig>:<pubkey>" can read as: erased, without ':',
\* not decodable, or decodable with another signature or another key
DamagedScripts(script) ==
    ({EmptyScript, CoinbaseScript(0), GarbledScript}
     \cup {SigScript([signer |-> k, digest |-> d], p) :
              k \in Owners, p \in Owners,
              d \in {script.signature.digest, NULL_HASH}})
    \ {script}

\* nobody has signed any input
Unsigners == [i \in 1..MaxInputs |-> ""]

VerifyInit ==
    /\ chain = <<>>
    /\ pending_transactions = <<>>
    /\ utxo = <<>>
    /\ spent_outputs = {}
    /\ difficulty = InitDifficulty
    /\ block_reward = InitReward
    /\ clock = 1
    /\ lastOp = "init"
    /\ lastResult = "None"
    /\ lastFacts = [input_index |-> 0, signed_by |-> Unsigners]
    /\ draft \in {Unsigned(keys, outputs) :
                     keys \in DraftInputs, outputs \in DraftOutputs}

\* draft.sign_input(input_index, private_key), whatever the index
SignInputAt(input_index, private_key) ==
    LET outcome == SignInputOutcome(draft, input_index)
        position == InputPosition(draft, input_index)
    IN /\ draft' = IF outcome = "None"
                   THEN sign_input(draft, position, private_key)
                   ELSE draft
       /\ lastOp' = "sign_input"
       /\ lastResult' = outcome
       /\ lastFacts' =
              [input_index |-> input_index,
               signed_by |-> IF outcome = "None"
                             THEN [lastFacts.signed_by EXCEPT
                                      ![position] = private_key]
                             ELSE lastFacts.signed_by]
       /\ UNCHANGED <<ledger, difficulty, block_reward, clock>>

\* draft.inputs[input_index].signature_script = script, on a transaction
\* that verifies
DamageScript(input_index, script) ==
    /\ verify(draft, DraftPrevOutputs)
    /\ input_index < Len(draft.inputs)
    /\ draft' = [draft EXCEPT
                    !.inputs[input_index + 1].signature_script = script]
    /\ lastOp' = "damage"
    /\ lastResult' = "None"
    /\ lastFacts' = [input_index |-> input_index,
                     signed_by |-> [lastFacts.signed_by EXCEPT
                                       ![input_index + 1] = ""]]
    /\ UNCHANGED <<ledger, difficulty, block_reward, clock>>

VerifyNext ==
    \/ ReadTxId
    \/ \E input_index \in InputIndices : \E private_key \in Owners :
          SignInputAt(input_index, private_key)
    \/ verify(draft, DraftPrevOutputs)
        /\ \E input_index \in 0..(Len(draft.inputs) - 1) :
              \E script \in
                    DamagedScripts(draft.inputs[input_index + 1].signature_script) :
                 DamageScript(input_index, script)

VerifySpec == VerifyInit /\ [][VerifyNext]_vars

-----------------------------------------------------------------------------
(* A caller builds a block from a list of transactions, reads its hash,    *)
(* mines it, assigns another list to it and validates its transactions     *)

\* the transactions a block is built from: a coinbase, a payment signed by
\* the owner of the output it spends, one signed by another key, and one
\* without inputs
BlockTransactions ==
    LET alices == OutpointKey(tx_id(create_coinbase_transaction(
                       ToAddress(PublicKeyOf(Alice)), InitReward, 0)), 0)
        bobs == OutpointKey(tx_id(create_coinbase_transaction(
                       ToAddress(PublicKeyOf(Bob)), InitReward, 0)), 0)
    IN {create_coinbase_transaction(ToAddress(PublicKeyOf(Alice)),
                                    InitReward, 1),
        Signed(<<alices>>, <<ToBob(1)>>),
        Signed(<<bobs>>, <<ToAlice(1)>>),
        Unsigned(<<>>, <<ToBob(1)>>)}

\* the lists of at most MaxListed of them
BlockLists == UNION {[1..n -> BlockTransactions] : n \in 0..MaxListed}

\* Block(index, transactions, previous_hash, timestamp, nonce, difficulty)
BlockInit ==
    /\ chain = <<>>
    /\ pending_transactions = <<>>
    /\ utxo = <<>>
    /\ spent_outputs = {}
    /\ difficulty = InitDifficulty
    /\ block_reward = InitReward
    /\ clock = 1
    /\ lastOp = "init"
    /\ lastResult = "None"
    /\ lastFacts = NoFacts
    /\ draft \in {Block(1, transactions, NULL_HASH, clock, nonce,
                         InitDifficulty) :
                     transactions \in BlockLists, nonce \in 0..MaxZeros}

\* a read of draft.hash: the hash is computed if none is cached, and cached
ReadHash ==
    /\ draft' = HashRead(draft)
    /\ lastOp' = "hash"
    /\ lastResult' = "hash"
    /\ lastFacts' = NoFacts
    /\ UNCHANGED <<ledger, difficulty, block_reward, clock>>

\* draft.mine(target_difficulty)
MineBlock(target_difficulty) ==
    /\ draft' = mine(draft, target_difficulty)
    /\ lastOp' = "mine"
    /\ lastResult' = "attempts"
    /\ lastFacts' = [difficulty |-> target_difficulty, nonce |-> draft.nonce,
                     cached |-> draft.hash # None]
    /\ UNCHANGED <<ledger, difficulty, block_reward, clock>>

\* the lists a caller makes of a block's list: the last transaction taken
\* away, one more appended, one replaced
EditedLists(transactions) ==
    ({SubSeq(transactions, 1, Len(transactions) - 1)}
     \cup {Append(transactions, tx) : tx \in BlockTransactions}
     \cup {[transactions EXCEPT ![i] = tx] :
              i \in DOMAIN transactions, tx \in BlockTransactions})
    \ {transactions}

\* draft.transactions = transactions on a block as it was built: the stored
\* merkle root stays
AssignTransactions(transactions) ==
    /\ draft.merkle_root = calculate_merkle_root(draft.transactions)
    /\ Len(transactions) <= MaxListed
    /\ draft' = [draft EXCEPT !.transactions = transactions]
    /\ lastOp' = "transactions"
    /\ lastResult' = "None"
    /\ lastFacts' = NoFacts
    /\ UNCHANGED <<ledger, difficulty, block_reward, clock>>

BlockNext ==
    \/ ReadHash
    \/ \E target_difficulty \in 0..MaxZeros : MineBlock(target_difficulty)
    \/ \E transactions \in EditedLists(draft.transactions) :
          AssignTransactions(transactions)

BlockSpec == BlockInit /\ [][BlockNext]_vars

-----------------------------------------------------------------------------
(* Block.mine attempt by attempt: lastOp is "mining" while the loop of     *)
(* lines 146..164 runs, lastFacts holds the target, the nonce the call      *)
(* started from and the attempts counted                                    *)

\* a block built from a coinbase, at either height
MiningInit ==
    /\ chain = <<>>
    /\ pending_transactions = <<>>
    /\ utxo = <<>>
    /\ spent_outputs = {}
    /\ difficulty = InitDifficulty
    /\ block_reward = InitReward
    /\ clock = 1
    /\ lastOp = "init"
    /\ lastResult = "None"
    /\ lastFacts = NoFacts
    /\ draft \in {Block(index,
                         <<create_coinbase_transaction(
                               ToAddress(PublicKeyOf(Alice)), InitReward,
                               index)>>,
                         NULL_HASH, clock, nonce, InitDifficulty) :
                     index \in 0..1, nonce \in 0..MaxZeros}

\* the call draft.mine(target_difficulty), up to the loop: attempts = 0
StartMine(target_difficulty) ==
    /\ lastOp # "mining"
    /\ lastOp' = "mining"
    /\ lastResult' = "None"
    /\ lastFacts' = [difficulty |-> target_difficulty, nonce |-> draft.nonce,
                     attempts |-> 0]
    /\ UNCHANGED <<ledger, difficulty, block_reward, clock, draft>>

\* one pass of the loop that counts an attempt only when the hash misses
MineAttempt_counting_misses ==
    /\ lastOp = "mining"
    /\ draft.nonce < MaxNonce
    /\ LET attempt == [draft EXCEPT !.hash = None]
       IN IF StartsWithZeros(calculate_hash(attempt), lastFacts.difficulty)
          THEN /\ draft' = attempt
               /\ lastOp' = "mine"
               /\ lastResult' = "attempts"
               /\ lastFacts' = lastFacts
          ELSE /\ draft' = [attempt EXCEPT !.nonce = attempt.nonce + 1]
               /\ lastOp' = "mining"
               /\ lastResult' = "None"
               /\ lastFacts' = [lastFacts EXCEPT !.attempts = @ + 1]
    /\ UNCHANGED <<ledger, difficulty, block_reward, clock>>

\* one pass of the loop: the cache is emptied, the hash computed and the
\* attempt counted; mine returns if the hash starts with the target, else
\* the nonce goes up by one
MineAttempt ==
    /\ lastOp = "mining"
    /\ draft.nonce < MaxNonce
    /\ LET attempt == [draft EXCEPT !.hash = None]
           attempts == lastFacts.attempts + 1
       IN /\ lastFacts' = [lastFacts EXCEPT !.attempts = attempts]
          /\ IF StartsWithZeros(calculate_hash(attempt),
                                lastFacts.difficulty)
             THEN /\ draft' = attempt
                  /\ lastOp' = "mine"
                  /\ lastResult' = "attempts"
             ELSE /\ draft' = [attempt EXCEPT !.nonce = attempt.nonce + 1]
                  /\ lastOp' = "mining"
                  /\ lastResult' = "None"
    /\ UNCHANGED <<ledger, difficulty, block_reward, clock>>

\* a read of draft.hash between two calls of mine
ReadMinedHash ==
    /\ lastOp # "mining"
    /\ draft.hash = None
    /\ ReadHash

\* targets up to one more zero than a hash can have
MiningNext ==
    \/ \E target_difficulty \in 0..(MaxZeros + 1) :
          StartMine(target_difficulty)
    \/ MineAttempt
    \/ ReadMinedHash

\* the loop, once entered, keeps running
MiningSpec ==
    MiningInit /\ [][MiningNext]_vars /\ WF_vars(MineAttempt)

-----------------------------------------------------------------------------
(* Claims *)

Submitted == lastOp = "add_transaction"
Mined == lastOp = "mine_pending_transactions" /\ lastResult = "block"
MineFailed == lastOp = "mine_pending_transactions" /\ lastResult = "None"
Tip == chain[Len(chain)]

\* the outpoints the ordinary transactions of a block consume
BlockConsumed(block) ==
    UNION {{InputKey(block.transactions[t].inputs[i]) :
              i \in DOMAIN block.transactions[t].inputs} :
             t \in {u \in DOMAIN block.transactions :
                      ~FirstInputIsNull(block.transactions[u])}}

\* the UTXO entries a block creates: <<key, output>> for every output of
\* every transaction
BlockCreated(block) ==
    UNION {{<<OutpointKey(tx_id(block.transactions[t]), i - 1),
              block.transactions[t].outputs[i]>> :
              i \in DOMAIN block.transactions[t].outputs} :
             t \in DOMAIN block.transactions}

\* C1: no outpoint is consumed by more than one input over all the
\* transactions of all the committed blocks.
C1_NoDoubleSpend ==
    \A p \in SpendPositions : \A q \in SpendPositions :
        p # q => SpentKeyAt(p) # SpentKeyAt(q)

\* C2: a mine_pending_transactions that returns None leaves chain, utxo,
\* spent_outputs and pending_transactions as they were; utxo and
\* spent_outputs change only in a step that appends a block, and a block
\* appended by mining comes with its mutations (what it consumes is spent and
\* no longer unspent, what its ordinary transactions create is unspent).
C2_AtomicCommit ==
    [][/\ (lastOp' = "mine_pending_transactions" /\ lastResult' = "None")
            => /\ chain' = chain
               /\ utxo' = utxo
               /\ spent_outputs' = spent_outputs
               /\ pending_transactions' = pending_transactions
       /\ (utxo' # utxo \/ spent_outputs' # spent_outputs)
            => (Len(chain') = Len(chain) + 1 /\ lastResult' = "block")
       /\ (lastOp' = "mine_pending_transactions" /\ chain' # chain)
            => LET block == chain'[Len(chain')]
               IN /\ chain' = Append(chain, block)
                  /\ lastResult' = "block"
                  /\ BlockConsumed(block) \subseteq spent_outputs'
                  /\ BlockConsumed(block) \cap DOMAIN utxo' = {}
                  /\ \A t \in 2..Len(block.transactions) :
                       \A i \in DOMAIN block.transactions[t].outputs :
                          OutpointKey(tx_id(block.transactions[t]), i - 1)
                             \in DOMAIN utxo'
      ]_vars

\* C2 witness: mining failed on a ledger that has blocks and pending
\* transactions.
C2_Witness ==
    MineFailed /\ chain # <<>> /\ pending_transactions # <<>> /\ utxo # <<>>

\* C3: once a committed block consumes an outpoint, an ordinary transaction
\* with an input referencing it is rejected and not enqueued.
C3_SpentStaysSpent ==
    [][(lastOp' = "add_transaction" /\ lastFacts'.ordinary /\ lastFacts'.replay)
          => (lastResult' = "False"
              /\ pending_transactions' = pending_transactions)]_vars

\* C3 witness: a replay was submitted, and rejected, while the consumed
\* outpoint is a key of the UTXO map again.
C3_Witness ==
    /\ Submitted /\ lastFacts.ordinary /\ lastFacts.replay
    /\ lastResult = "False"
    /\ ChainConsumed \cap DOMAIN utxo # {}

\* C4: the UTXO map and the spent set are disjoint.
C4_UtxoSpentDisjoint == DOMAIN utxo \cap spent_outputs = {}

\* C5: the coinbases of two committed blocks of different heights have
\* different transaction ids.
C5_CoinbaseIdsDistinct ==
    \A i \in DOMAIN chain : \A j \in DOMAIN chain :
        chain[i].index # chain[j].index
          => tx_id(chain[i].transactions[1]) # tx_id(chain[j].transactions[1])

\* C6: an add_transaction that returns False leaves pending_transactions,
\* chain, utxo and spent_outputs as they were.
C6_RejectionChangesNothing ==
    [][(lastOp' = "add_transaction" /\ lastResult' = "False")
          => /\ pending_transactions' = pending_transactions
             /\ chain' = chain
             /\ utxo' = utxo
             /\ spent_outputs' = spent_outputs]_vars

\* C6 witness: a rejection for insufficient funds alone, with a transaction
\* already pending.
C6_Witness ==
    /\ Submitted /\ lastResult = "False"
    /\ lastFacts.ordinary /\ lastFacts.unspent /\ lastFacts.verified
    /\ ~lastFacts.funded
    /\ pending_transactions # <<>>

C8_CommitEffect ==
    [][(lastOp' = "mine_pending_transactions" /\ lastResult' = "block")
          => LET block == chain'[Len(chain')]
                 consumed == BlockConsumed(block)
                 created == BlockCreated(block)
                 newKeys == {e[1] : e \in created}
             IN /\ chain' = Append(chain, block)
                /\ spent_outputs' = spent_outputs \cup consumed
                /\ utxo' = [k \in (DOMAIN utxo \ consumed) \cup newKeys |->
                              IF k \in newKeys
                              THEN (CHOOSE e \in created : e[1] = k)[2]
                              ELSE utxo[k]]
                /\ pending_transactions' = <<>>
                /\ difficulty' = difficulty
                /\ block_reward' = block_reward]_vars

\* C9: in every block committed by mining, each ordinary transaction has an
\* input value, over the UTXO map just before the commit, of at least its
\* output value, and the coinbase pays exactly block_reward.
C9_CommittedValue ==
    [][(lastOp' = "mine_pending_transactions" /\ lastResult' = "block")
          => LET block == chain'[Len(chain')]
             IN /\ \A t \in 2..Len(block.transactions) :
                     get_input_value(block.transactions[t], utxo)
                        >= get_output_value(block.transactions[t])
                /\ Len(block.transactions[1].outputs) = 1
                /\ block.transactions[1].outputs[1].amount = block_reward]_vars

\* C9 witness: a mined block holds a transaction that pays a fee.
C9_Witness ==
    /\ Mined
    /\ \E t \in 2..Len(Tip.transactions) :
          /\ Len(Tip.transactions[t].inputs) = 1
          /\ get_output_value(Tip.transactions[t]) < block_reward

\* C10: create_genesis_block on a chain that already has blocks appends
\* nothing and adds nothing to utxo.
C10_GenesisOnlyOnce ==
    [][(lastOp' = "create_genesis_block" /\ chain # <<>>)
          => (chain' = chain /\ utxo' = utxo)]_vars

\* C11: in every reachable state the chain is well linked: block 0 has index
\* 0 and the null previous hash, every later block has its position as index
\* and the hash of the block before as previous hash, every block's hash
\* has at least difficulty leading zeros, and validate_chain returns True.
C11_ChainWellLinked ==
    /\ chain # <<>>
         => (chain[1].index = 0 /\ chain[1].previous_hash = NULL_HASH)
    /\ \A i \in 2..Len(chain) :
          /\ chain[i].index = i - 1
          /\ chain[i].previous_hash = block_hash(chain[i - 1])
    /\ \A i \in DOMAIN chain :
          LeadingZeros(block_hash(chain[i])) >= difficulty
    /\ validate_chain(chain, difficulty)

\* C12: validate_chain returns False whenever a block of the chain, the
\* first included, has a hash with fewer than difficulty leading zeros.
C12_WeakProofDetected ==
    (/\ lastOp = "tamper_nonce"
     /\ \E i \in DOMAIN chain :
           LeadingZeros(block_hash(chain[i])) < difficulty)
      => lastResult = "False"

\* C13: after the previous_hash of a committed block, the first included,
\* is changed to a different value, validate_chain returns False.
C13_ChangedPreviousHashDetected ==
    lastOp = "tamper_previous_hash" => lastResult = "False"

\* C13 witness: validate_chain returned True before the change and False
\* after it, for the middle block of a chain of three.
C13_Witness ==
    /\ lastOp = "tamper_previous_hash" /\ lastResult = "False"
    /\ lastFacts.valid_before
    /\ lastFacts.position = 2 /\ Len(chain) = 3

\* C14: after the transaction list of a committed block is changed (a
\* transaction added, removed, replaced, moved, or edited in place) and its
\* merkle_root is left as it was, validate_transactions returns False.
C14_ChangedTransactionsDetected ==
    lastOp = "tamper_transactions" => lastResult = "False"

\* C15: the chain before an operation is a prefix of the chain after it: no
\* operation removes a block or changes a field (index, previous hash,
\* merkle root, nonce, hash, transactions) of a block already in the chain.
C15_AppendOnly ==
    [][/\ Len(chain') >= Len(chain)
       /\ SubSeq(chain', 1, Len(chain)) = chain
       /\ \A i \in DOMAIN chain :
             block_hash(chain'[i]) = block_hash(chain[i])]_vars

\* C15 witness: a transaction was accepted into the pending pool after a
\* block built from an earlier pending pool was committed.
C15_Witness ==
    /\ Submitted /\ lastResult = "True" /\ pending_transactions # <<>>
    /\ Len(chain) >= 2
    /\ Len(chain[2].transactions) >= 2

\* the committed transactions that are not coinbases: <<block, transaction>>
OrdinaryPositions ==
    UNION {{<<b, t>> : t \in {u \in DOMAIN chain[b].transactions :
                                ~FirstInputIsNull(chain[b].transactions[u])}} :
             b \in DOMAIN chain}

\* C16: a transaction id that is not a coinbase's appears at most once over
\* all the committed blocks.
C16_ConsumedOnce ==
    \A p \in OrdinaryPositions : \A q \in OrdinaryPositions :
        p # q => tx_id(chain[p[1]].transactions[p[2]])
                   # tx_id(chain[q[1]].transactions[q[2]])

\* C17: on a fresh ledger whose genesis block pays the reward R to Alice,
\* after Alice's wallet sends a < R to Bob with fee f and a miner other than
\* the two mines the second block, Alice's balance is R - a - f, Bob's is a,
\* and validate_chain returns True.
C17_EndToEnd ==
    (/\ lastOp = "mine_pending_transactions"
     /\ lastFacts.miner \notin Addresses)
      => /\ lastResult = "block"
         /\ Len(chain) = 2
         /\ get_balance(utxo, ToAddress(PublicKeyOf(Alice)))
               = block_reward - lastFacts.amount - lastFacts.fee
         /\ get_balance(utxo, ToAddress(PublicKeyOf(Bob))) = lastFacts.amount
         /\ validate_chain(chain, difficulty)

\* C17 witness: the second block is mined by a third party and holds a
\* payment with a fee and with change.
C17_Witness ==
    /\ lastOp = "mine_pending_transactions" /\ lastResult = "block"
    /\ lastFacts.miner \notin Addresses
    /\ lastFacts.fee > 0
    /\ lastFacts.amount + lastFacts.fee < block_reward

\* C18: mine_pending_transactions on an empty chain returns None, appends
\* no block and leaves pending_transactions, utxo and spent_outputs as they
\* were.
C18_MineNeedsGenesis ==
    [][(lastOp' = "mine_pending_transactions" /\ chain = <<>>)
          => /\ lastResult' = "None"
             /\ chain' = <<>>
             /\ pending_transactions' = pending_transactions
             /\ utxo' = utxo
             /\ spent_outputs' = spent_outputs]_vars

\* C18 witness: mining failed on an empty chain with a transaction pending.
C18_Witness == MineFailed /\ chain = <<>> /\ pending_transactions # <<>>

\* C19: every amount in the UTXO map is a non-negative integer, and no
\* committed transaction has an output with a negative amount.
C19_AmountsNonNegative ==
    /\ \A k \in DOMAIN utxo : utxo[k].amount \in Nat
    /\ \A b \in DOMAIN chain : \A t \in DOMAIN chain[b].transactions :
          \A i \in DOMAIN chain[b].transactions[t].outputs :
             chain[b].transactions[t].outputs[i].amount >= 0

\* C20: sign_input, on any input and with any key, as often as it is
\* called, leaves the transaction's id equal to the id it had before the
\* call: the cached id is dropped and the id computed anew is the same.
C20_SigningKeepsId ==
    [][lastOp' = "sign_input"
          => /\ tx_id(draft') = tx_id(draft)
             /\ draft'.cached_tx_id = None]_vars

\* C20 witness: a call of sign_input has left a transaction of two inputs
\* with both inputs signed, by different keys.
C20_Witness ==
    /\ lastOp = "sign_input"
    /\ Len(draft.inputs) = 2
    /\ draft.inputs[1].signature_script.kind = "sig"
    /\ draft.inputs[2].signature_script.kind = "sig"
    /\ draft.inputs[1].signature_script.pubkey
         # draft.inputs[2].signature_script.pubkey

\* the output an input of the draft names, when there is one
Named(tx, i) == DraftPrevOutputs[InputKey(tx.inputs[i])]

Names(tx, i) == InputKey(tx.inputs[i]) \in DOMAIN DraftPrevOutputs

\* every input names an output and was last signed, by sign_input, with the
\* key that owns it
OwnerSigned(tx, signed_by) ==
    \A i \in DOMAIN tx.inputs :
        Names(tx, i) /\ signed_by[i] = OwnerOf(Named(tx, i))

\* C21: in whatever order the inputs were signed, once every input is signed
\* with the key that owns the output it names the transaction verifies; and
\* an input that verified before sign_input signed or re-signed another
\* input verifies after it.
C21_SignedIndependently ==
    [][lastOp' = "sign_input" /\ lastResult' = "None"
          => /\ OwnerSigned(draft', lastFacts'.signed_by)
                    => verify(draft', DraftPrevOutputs)
             /\ \A i \in DOMAIN draft.inputs :
                    (/\ i # InputPosition(draft, lastFacts'.input_index)
                     /\ Names(draft, i)
                     /\ verify_input(draft, i, Named(draft, i)))
                    => verify_input(draft', i, Named(draft', i))]_vars

\* two inputs owned by different keys, the second signed before the first,
\* and the transaction verifies
C21_Witness ==
    /\ lastOp = "sign_input"
    /\ lastResult = "None"
    /\ lastFacts.input_index = 0
    /\ Len(draft.inputs) = 2
    /\ OwnerSigned(draft, lastFacts.signed_by)
    /\ OwnerOf(Named(draft, 1)) # OwnerOf(Named(draft, 2))
    /\ verify(draft, DraftPrevOutputs)

\* the key in the script of input i of tx owns the output the input names
SignedByOwner(tx, i) ==
    /\ tx.inputs[i].signature_script.kind = "sig"
    /\ ToAddress(tx.inputs[i].signature_script.pubkey)
          = utxo[InputKey(tx.inputs[i])].recipient_address

\* C22: verify_input is False for an input whose script carries a key that
\* does not own the output the input names, valid signature or not; and
\* add_transaction admits no transaction with such an input.
C22_OnlyOwnerSpends ==
    [][/\ \A tx \in Submissions \cup NullFirstInputs :
             \A i \in DOMAIN tx.inputs :
                (InputKey(tx.inputs[i]) \in DOMAIN utxo
                 /\ ~SignedByOwner(tx, i))
                => ~verify_input(tx, i, utxo[InputKey(tx.inputs[i])])
       /\ (lastOp' = "add_transaction" /\ lastResult' = "True")
             => LET tx == pending_transactions'[Len(pending_transactions')]
                IN \A i \in DOMAIN tx.inputs :
                      InputKey(tx.inputs[i]) \in DOMAIN utxo
                      => SignedByOwner(tx, i)]_vars

C24_IndexOutOfRange ==
    [][(lastOp' = "sign_input"
        /\ lastFacts'.input_index \notin 0..(Len(draft.inputs) - 1))
          => /\ lastResult' = "ValueError"
             /\ draft' = draft]_vars

\* C25: after mine(difficulty) has returned, the hash computed from the
\* block's fields starts with difficulty zeros, the hash property gives that
\* hash, and is_valid_proof(difficulty) is True.
C25_MinedProof ==
    lastOp = "mine"
    => /\ StartsWithZeros(calculate_hash(draft), lastFacts.difficulty)
       /\ block_hash(draft) = calculate_hash(draft)
       /\ is_valid_proof(draft, lastFacts.difficulty)

\* mine went past the nonce of a block whose hash had been read
C25_Witness ==
    /\ lastOp = "mine"
    /\ lastFacts.difficulty = MaxZeros
    /\ lastFacts.cached
    /\ draft.nonce > lastFacts.nonce
    /\ is_valid_proof(draft, MaxZeros)

\* C26: the merkle root of no transactions is the all-zero hash, and the
\* merkle root of one transaction is that transaction's id.
C26_MerkleBaseCases ==
    /\ draft.transactions = <<>>
          => calculate_merkle_root(draft.transactions) = NULL_HASH
    /\ Len(draft.transactions) = 1
          => calculate_merkle_root(draft.transactions)
                = tx_id(draft.transactions[1])
    /\ (lastOp = "init" /\ Len(draft.transactions) <= 1)
          => draft.merkle_root = calculate_merkle_root(draft.transactions)

\* a block built from one transaction stores that transaction's id
C26_Witness ==
    /\ lastOp = "init"
    /\ Len(draft.transactions) = 1
    /\ draft.merkle_root = tx_id(draft.transactions[1])
    /\ draft.merkle_root # NULL_HASH

\* the hash of a pair of nodes
PairHash(left, right) == double_sha256([left |-> left, right |-> right])

\* C27: a level of an odd number of nodes, more than one, pairs its last
\* node with itself: the root of [a, b, c] is the root of [a, b, c, c] and is
\* H(H(a,b), H(c,c)); and of five leaves the third node of the second level
\* is paired with itself.
C27_MerkleOddLevel ==
    Len(draft.transactions) = 3
    => LET txs == draft.transactions
           a == tx_id(txs[1])
           b == tx_id(txs[2])
           c == tx_id(txs[3])
       IN /\ calculate_merkle_root(txs)
                = calculate_merkle_root(Append(txs, txs[3]))
          /\ calculate_merkle_root(txs)
                = PairHash(PairHash(a, b), PairHash(c, c))
          /\ calculate_merkle_root(txs \o <<txs[1], txs[2]>>)
                = PairHash(PairHash(PairHash(a, b), PairHash(c, a)),
                           PairHash(PairHash(b, b), PairHash(b, b)))

\* a block built from three transactions of three ids
C27_Witness ==
    /\ lastOp = "init"
    /\ Len(draft.transactions) = 3
    /\ Cardinality({tx_id(draft.transactions[i]) : i \in 1..3}) = 3
    /\ draft.merkle_root
          = PairHash(PairHash(tx_id(draft.transactions[1]),
                              tx_id(draft.transactions[2])),
                     PairHash(tx_id(draft.transactions[3]),
                              tx_id(draft.transactions[3])))

\* C30: validate_transactions returns False when the list is empty, when
\* the first transaction is not a coinbase, when a later transaction fails
\* verify (a coinbase placed later does), or when the stored merkle root is
\* not the recomputed one; it returns True when none of these holds.
C30_ValidateTransactions ==
    LET txs == draft.transactions
        first_is_coinbase ==
            txs[1].inputs # <<>> /\ txs[1].inputs[1].prev_tx_id = NULL_HASH
        fails ==
            \/ txs = <<>>
            \/ txs # <<>> /\ ~first_is_coinbase
            \/ \E i \in 2..Len(txs) : ~verify(txs[i], DraftPrevOutputs)
            \/ draft.merkle_root # calculate_merkle_root(txs)
    IN ValidateTransactionsOutcome(draft, DraftPrevOutputs)
          = IF fails THEN "False" ELSE "True"

\* C29: the block a successful mine_pending_transactions commits on a chain
\* of n blocks has index n, the hash of the former latest block as its
\* previous hash, and as its transactions a coinbase built for height n with
\* the ledger's reward followed by the pending transactions, each once, in
\* the order they were submitted in.
C29_CommittedBlock ==
    [][(lastOp' = "mine_pending_transactions" /\ lastResult' = "block")
          => LET n == Len(chain)
                 block == chain'[Len(chain')]
             IN /\ Len(chain') = n + 1
                /\ block.index = n
                /\ block.previous_hash = block_hash(chain[n])
                /\ block.transactions[1]
                      = create_coinbase_transaction(
                            block.transactions[1].outputs[1].recipient_address,
                            block_reward, n)
                /\ Tail(block.transactions) = pending_transactions]_vars

\* a block committed with two different submitted transactions
C29_Witness ==
    /\ Mined
    /\ Len(Tip.transactions) = 3
    /\ Tip.transactions[2] # Tip.transactions[3]
    /\ Tip.index = Len(chain) - 1

\* C28: load_from_file leaves a ledger whose utxo holds every output of
\* every transaction of every block, none removed, and whose spent_outputs
\* is empty; so an outpoint consumed before the save is a key of utxo, is not
\* in spent_outputs, and a transaction of its owner that spends it is
\* accepted by add_transaction.
C28_LoadRebuildsUtxo ==
    [][lastOp' = "load_from_file"
          => /\ spent_outputs' = {}
             /\ DOMAIN utxo'
                   = UNION {{p[1] : p \in BlockCreated(chain[b])} :
                              b \in DOMAIN chain}
             /\ \A b \in DOMAIN chain : \A p \in BlockCreated(chain[b]) :
                    utxo'[p[1]] = p[2]
             /\ \A k \in ChainConsumed :
                    /\ k \in DOMAIN utxo'
                    /\ k \notin spent_outputs'
                    /\ add_transaction(
                           SignAll(Unsigned(<<k>>, <<ToBob(1)>>),
                                   OwnerOf(utxo'[k]), 1),
                           pending_transactions', utxo', spent_outputs'
                       ).returns = "True"]_vars

\* after a load, add_transaction has accepted a transaction that spends an
\* outpoint a committed transaction has consumed
C28_Witness ==
    /\ lastOp = "add_transaction"
    /\ lastResult = "True"
    /\ lastFacts.ordinary
    /\ lastFacts.replay
    /\ spent_outputs = {}
    /\ ChainConsumed # {}

\* the block with another nonce, its hash computed anew
AtNonce(block, nonce) == calculate_hash([block EXCEPT !.nonce = nonce])

\* a nonce from the block's on, followed by the model, whose hash starts
\* with the target
NonceExists(block, target_difficulty) ==
    \E n \in block.nonce..(MaxNonce - 1) :
        StartsWithZeros(AtNonce(block, n), target_difficulty)

\* C31: mine tries the nonces one by one upwards from the block's nonce,
\* returns at the first whose hash starts with the target, changes only the
\* nonce and the cached hash, and returns final nonce - starting nonce + 1
\* (1 and the nonce unchanged for difficulty 0); a call returns if and only
\* if there is such a nonce at or above the starting one.
C31_NonceSearch ==
    /\ [][(lastOp = "mining")
            => /\ draft'.nonce \in {draft.nonce, draft.nonce + 1}
               /\ [draft' EXCEPT !.nonce = draft.nonce, !.hash = draft.hash]
                     = draft
               /\ lastOp' = "mine"
                     => /\ draft'.nonce = draft.nonce
                        /\ StartsWithZeros(calculate_hash(draft'),
                                           lastFacts.difficulty)
                        /\ \A n \in lastFacts.nonce..(draft'.nonce - 1) :
                              ~StartsWithZeros(AtNonce(draft', n),
                                               lastFacts.difficulty)
                        /\ lastFacts'.attempts
                              = draft'.nonce - lastFacts.nonce + 1
                        /\ lastFacts.difficulty = 0
                              => /\ lastFacts'.attempts = 1
                                 /\ draft'.nonce = lastFacts.nonce
                        /\ draft' = mine([draft' EXCEPT
                                             !.nonce = lastFacts.nonce],
                                         lastFacts.difficulty)
               /\ lastOp' = "mining"
                     => ~StartsWithZeros(AtNonce(draft, draft.nonce),
                                         lastFacts.difficulty)]_vars
    /\ [](lastOp = "mining" /\ ~NonceExists(draft, lastFacts.difficulty)
             => [](lastOp = "mining"))
    /\ ((lastOp = "mining" /\ NonceExists(draft, lastFacts.difficulty))
          ~> lastOp = "mine")

\* mine has returned after MaxZeros misses and one hit
C31_Witness ==
    /\ lastOp = "mine"
    /\ lastFacts.difficulty = MaxZeros
    /\ lastFacts.attempts = MaxZeros + 1
    /\ draft.nonce = lastFacts.nonce + MaxZeros
    /\ is_valid_proof(draft, MaxZeros)

\* C32: in every state of the ledger the amounts in the UTXO map sum to at
\* most block_reward times the number of committed blocks.
C32_SupplyBound ==
    SumAmounts(utxo, DOMAIN utxo) <= block_reward * Len(chain)

\* C33: on a chain with a genesis block every mine_pending_transactions
\* commits a block and leaves pending_transactions empty, whatever was
\* submitted before, a coinbase-shaped transaction included.
C33_MineCommits ==
    [][(lastOp' = "mine_pending_transactions" /\ chain # <<>>)
          => /\ lastResult' = "block"
             /\ Len(chain') = Len(chain) + 1
             /\ pending_transactions' = <<>>]_vars

\* C34: in every state of the ledger every pending transaction that is not
\* coinbase-shaped has each of its inputs' outpoints in utxo and not in
\* spent_outputs.
C34_PendingStaysValid ==
    \A t \in DOMAIN pending_transactions :
        ~FirstInputIsNull(pending_transactions[t])
        => \A i \in DOMAIN pending_transactions[t].inputs :
              /\ InputKey(pending_transactions[t].inputs[i]) \in DOMAIN utxo
              /\ InputKey(pending_transactions[t].inputs[i])
                    \notin spent_outputs

\* a payment is still pending after a mine that failed and after blocks
\* that were committed
C34_Witness ==
    /\ MineFailed
    /\ Len(chain) > 1
    /\ \E t \in DOMAIN pending_transactions :
          /\ ~FirstInputIsNull(pending_transactions[t])
          /\ InputKey(pending_transactions[t].inputs[1]) \in DOMAIN utxo

\* C35: add_transaction answers every transaction with True or False, no
\* exception leaves it (a transaction without inputs is answered False), and
\* a transaction that is not accepted leaves the ledger as it was.
C35_RejectsWithoutRaising ==
    [][lastOp' = "add_transaction"
          => /\ lastResult' \in {"True", "False"}
             /\ lastResult' # "True"
                   => /\ pending_transactions' = pending_transactions
                      /\ chain' = chain
                      /\ utxo' = utxo
                      /\ spent_outputs' = spent_outputs]_vars

\* C36: verify is False when the outpoint of some input is not a key of
\* prev_outputs, and is True exactly when every input's outpoint is a key
\* and verify_input succeeds on it; the amounts play no part: a transaction
\* signed by the owners verifies also when it pays more than its inputs
\* hold.
C36_VerifyAllInputs ==
    /\ (\E i \in DOMAIN draft.inputs : ~Names(draft, i))
          => ~verify(draft, DraftPrevOutputs)
    /\ verify(draft, DraftPrevOutputs)
          <=> \A i \in DOMAIN draft.inputs :
                  /\ Names(draft, i)
                  /\ verify_input(draft, i, Named(draft, i))
    /\ OwnerSigned(draft, lastFacts.signed_by)
          => verify(draft, DraftPrevOutputs)

\* a transaction of one input that pays more than the input holds verifies
C36_Witness ==
    /\ lastOp = "sign_input"
    /\ Len(draft.inputs) = 1
    /\ Names(draft, 1)
    /\ get_output_value(draft) > Named(draft, 1).amount
    /\ verify(draft, DraftPrevOutputs)

====
